---------------------------- MODULE Spec2Model ----------------------------
(***************************************************************************)
(* Model of build_index.py: the walk of a library of FreeCAD documents     *)
(* that extracts thumbnails and writes index.html.                         *)
(*                                                                         *)
(* Text is a sequence of tokens.  A token is one character that matters   *)
(* to the code (" ", "%", ".", "/", "\\") or a run of letters, digits and  *)
(* "-" that the code never looks inside ("part", "FCStd", "20").  A file   *)
(* name is a text without "/"; a path is a sequence of file names.         *)
(***************************************************************************)
EXTENDS Integers, Sequences, FiniteSets, TLC

\* ------------------------------------------------------------------ text

\* The tokens of the model, in the order of their first character's code.
TokenOrder ==
    << " ", "%", ".", "/", "20", "25", "2F", "5C",
       "BRP", "BREP", "FCStd", "STEP", "STL", "STP", "Tools",
       "\\", "]",
       "a", "b", "brep", "brp", "fcstd", "freecad-document", "ghost", "git",
       "home", "html", "icon-blue", "icon-down", "icon-green", "icon-grey",
       "icon-grid", "icon-list", "icon-right",
       "index", "lib", "md5[", "part", "png", "step", "stl", "stp", "svg",
       "thumbnails", "v2", "x" >>

TokenRank(t) == CHOOSE i \in 1..Len(TokenOrder) : TokenOrder[i] = t

\* str.lower() on one token.
LowerToken(t) ==
    CASE t = "FCStd" -> "fcstd"
      [] t = "STEP"  -> "step"
      [] t = "STP"   -> "stp"
      [] t = "STL"   -> "stl"
      [] t = "BREP"  -> "brep"
      [] t = "BRP"   -> "brp"
      [] t = "Tools" -> "tools"
      [] OTHER       -> t

Lower(s) == [i \in 1..Len(s) |-> LowerToken(s[i])]

\* a < b for two texts, as Python compares str: by the first difference,
\* a proper prefix first.
RECURSIVE TextLess(_, _)
TextLess(a, b) ==
    IF b = <<>> THEN FALSE
    ELSE IF a = <<>> THEN TRUE
    ELSE IF Head(a) = Head(b) THEN TextLess(Tail(a), Tail(b))
    ELSE TokenRank(Head(a)) < TokenRank(Head(b))

\* a < b for two tuples of path parts, as Python compares lists of str.
RECURSIVE PartsLess(_, _)
PartsLess(a, b) ==
    IF b = <<>> THEN FALSE
    ELSE IF a = <<>> THEN TRUE
    ELSE IF Head(a) = Head(b) THEN PartsLess(Tail(a), Tail(b))
    ELSE TextLess(Head(a), Head(b))

\* str.startswith(prefix)
StartsWith(s, prefix) ==
    /\ Len(s) >= Len(prefix)
    /\ SubSeq(s, 1, Len(prefix)) = prefix

\* str.replace(old, new) for a one-token old and a one-token new.
Replace(s, old, new) == [i \in 1..Len(s) |-> IF s[i] = old THEN new ELSE s[i]]

\* str.rfind(t): the last position of t, 0 when there is none (Python: the
\* position counted from 0, -1 when there is none).
RECURSIVE RFind(_, _)
RFind(s, t) ==
    IF s = <<>> THEN 0
    ELSE IF s[Len(s)] = t THEN Len(s)
    ELSE RFind(SubSeq(s, 1, Len(s) - 1), t)

\* ------------------------------------------------------------- pathlib

\* A pathlib.Path: absolute or relative, with its parts.
MkPath(abs, parts) == [abs |-> abs, parts |-> parts]

RelPath(parts) == MkPath(FALSE, parts)

\* Path.name
PathName(p) == IF p.parts = <<>> THEN <<>> ELSE p.parts[Len(p.parts)]

\* PurePath.suffix: the last "." and what follows it, unless the "." is the
\* first or the last character of the name.
Suffix(name) ==
    LET i == RFind(name, ".")
    IN  IF 1 < i /\ i < Len(name) THEN SubSeq(name, i, Len(name)) ELSE <<>>

\* PurePath.with_suffix(suffix): the old suffix is cut off the name and the
\* new one appended; a name without suffix only gets the new one appended.
with_suffix(p, suffix) ==
    LET name == PathName(p)
        old  == Suffix(name)
        new  == SubSeq(name, 1, Len(name) - Len(old)) \o suffix
    IN  MkPath(p.abs, SubSeq(p.parts, 1, Len(p.parts) - 1) \o <<new>>)

\* Path.__truediv__: a / b for a relative b.
Join(a, b) == MkPath(a.abs, a.parts \o b.parts)

RECURSIVE JoinText(_)
\* "/".join(parts)
JoinText(parts) ==
    IF parts = <<>> THEN <<>>
    ELSE IF Len(parts) = 1 THEN parts[1]
    ELSE parts[1] \o <<"/">> \o JoinText(Tail(parts))

\* str(path)
Str(p) ==
    IF p.abs THEN <<"/">> \o JoinText(p.parts)
    ELSE IF p.parts = <<>> THEN <<".">>
    ELSE JoinText(p.parts)

RECURSIVE SplitText(_, _)
\* The parts pathlib parses out of a text: cut at "/", empty parts and "."
\* parts dropped.  cur is the part being read.
SplitText(s, cur) ==
    LET done == IF cur = <<>> \/ cur = <<".">> THEN <<>> ELSE <<cur>>
    IN  IF s = <<>> THEN done
        ELSE IF Head(s) = "/" THEN done \o SplitText(Tail(s), <<>>)
        ELSE SplitText(Tail(s), Append(cur, Head(s)))

\* Path(text)
ParsePath(s) == MkPath(s # <<>> /\ Head(s) = "/", SplitText(s, <<>>))

\* ---------------------------------------------------- path definitions

\* homefolder = Path.cwd()
homefolder == MkPath(TRUE, << <<"home">>, <<"lib">> >>)

\* imagefolder = Path("thumbnails")
imagefolder == RelPath(<< <<"thumbnails">> >>)

\* htmlfile = homefolder / "index.html"
htmlfile == Join(homefolder, RelPath(<< <<"index", ".", "html">> >>))

\* excludelist = {"thumbnails"}
excludelist == { <<"thumbnails">> }

defaulticon  == Join(imagefolder, RelPath(<< <<"freecad-document", ".", "svg">> >>))
stepicon     == Join(imagefolder, RelPath(<< <<"icon-grey", ".", "svg">> >>))
brepicon     == Join(imagefolder, RelPath(<< <<"icon-blue", ".", "svg">> >>))
stlicon      == Join(imagefolder, RelPath(<< <<"icon-green", ".", "svg">> >>))
collapseicon == Join(imagefolder, RelPath(<< <<"icon-right", ".", "svg">> >>))
expandicon   == Join(imagefolder, RelPath(<< <<"icon-down", ".", "svg">> >>))
gridicon     == Join(imagefolder, RelPath(<< <<"icon-grid", ".", "svg">> >>))
listicon     == Join(imagefolder, RelPath(<< <<"icon-list", ".", "svg">> >>))

\* ---------------------------------------------------------- clean_path

\* Path.resolve(): a relative path is taken from the working directory,
\* which is homefolder.  The tree holds no link to a directory, so the
\* parts stay as they are.
Resolve(p) == IF p.abs THEN p ELSE MkPath(TRUE, homefolder.parts \o p.parts)

\* Path.relative_to(homefolder), and the path itself when that raises
\* ValueError because the path is not below homefolder.
relative_to_home(p) ==
    IF p.abs /\ StartsWith(p.parts, homefolder.parts)
    THEN RelPath(SubSeq(p.parts, Len(homefolder.parts) + 1, Len(p.parts)))
    ELSE p

\* The characters urllib.parse.quote leaves alone: letters, digits, "_.-~"
\* and the default safe character "/".
QuoteSafe(t) == t \notin {" ", "%", "\\"}

\* The escape of one character that is not safe.
QuoteToken(t) ==
    CASE t = " "  -> <<"%", "20">>
      [] t = "%"  -> <<"%", "25">>
      [] t = "\\" -> <<"%", "5C">>
      [] OTHER    -> <<t>>

RECURSIVE quote_safe_empty(_)
\* quote(text, safe=""): the "/" is escaped too.
quote_safe_empty(s) ==
    IF s = <<>> THEN <<>>
    ELSE (IF Head(s) = "/" THEN <<"%", "2F">>
          ELSE IF QuoteSafe(Head(s)) THEN <<Head(s)>> ELSE QuoteToken(Head(s)))
         \o quote_safe_empty(Tail(s))

RECURSIVE quote(_)
\* urllib.parse.quote(text)
quote(s) ==
    IF s = <<>> THEN <<>>
    ELSE (IF QuoteSafe(Head(s)) THEN <<Head(s)>> ELSE QuoteToken(Head(s)))
         \o quote(Tail(s))

\* clean_path(filepath)
clean_path(filepath) ==
    LET resolved == Resolve(filepath)
        relative == relative_to_home(resolved)
        replaced == Replace(Str(relative), "\\", "/")
        stripped == IF StartsWith(replaced, <<"/">>) THEN Tail(replaced) ELSE replaced
    IN  quote(stripped)

\* get_hashname(filepath): md5 is modelled as the injective wrapping of
\* its input.
get_hashname(filepath) ==
    <<"md5[">> \o clean_path(filepath) \o <<"]">> \o <<".", "png">>


\* ---------------------------------------------------------- file system

VARIABLES
    fs,      \* the tree below homefolder: parts of a path |-> "file", "dir" or
             \* "dangling" (a symbolic link to nothing)
    env,     \* what the operating system answers, fixed once it has answered:
             \* template, list[dir], doc[path], index
    pc,      \* the position in __main__: "start", "walk", "assembled",
             \* "opened", "end"
    status,  \* "running", "done" or "crashed" (an exception left __main__)
    cause,   \* the operation whose exception left __main__, "" if none
    stack,   \* the calls of build_html in progress, the innermost last
    page,    \* the text __main__ writes: the template with the walk's html
    index,   \* index.html: [state, content]
    index0,  \* index.html as it was when the run began
    run,     \* "first" or "second"
    prev,    \* what the first run left: its page and its thumbnails
    ret,     \* the value each finished call build_html(dirpath) returned
    given,     \* PathSpec: the path clean_path is given
    cleaned,   \* PathSpec: clean_path(given)
    recleaned, \* PathSpec: clean_path of cleaned read as a path
    ppc        \* PathSpec: "given", "cleaned" or "recleaned"; "off" in Spec

walk == <<fs, env, pc, status, cause, stack, page, index, index0, run, prev, ret>>

paths == <<given, cleaned, recleaned, ppc>>

vars == <<walk, paths>>

\* The parts below homefolder of a path, <<"..">> for a path outside it.
Below(p) ==
    LET r == relative_to_home(Resolve(p))
    IN  IF r.abs THEN << <<".", ".">> >> ELSE r.parts

KindOf(f, p) ==
    LET q == Below(p) IN IF q \in DOMAIN f THEN f[q] ELSE "none"

\* Path.exists(): a dangling link does not exist.
exists(f, p) == KindOf(f, p) \in {"file", "dir"}

\* Path.is_dir()
is_dir(f, p) == KindOf(f, p) = "dir"

\* Path.iterdir(): every entry of the directory, whatever it is.
iterdir(f, dirpath) ==
    LET d == Below(dirpath)
    IN  { MkPath(dirpath.abs, dirpath.parts \o <<q[Len(q)]>>) :
            q \in { q \in DOMAIN f : /\ Len(q) = Len(d) + 1
                                     /\ SubSeq(q, 1, Len(d)) = d } }

RECURSIVE sorted(_)
\* sorted(paths)
sorted(S) ==
    IF S = {} THEN <<>>
    ELSE LET m == CHOOSE x \in S : \A y \in S \ {x} : PartsLess(x.parts, y.parts)
         IN  <<m>> \o sorted(S \ {m})

\* ------------------------------------------------------------ get_icon

\* with open(iconpath, "wb") as thumb: thumb.write(data), by what the
\* operating system answers: the file is there once open has succeeded.
WriteThumb(f, iconpath, wr) ==
    IF wr = "openfail" THEN f ELSE (Below(iconpath) :> "file") @@ f

\* get_icon(filepath), the archive being arch ("bad": not a readable zip,
\* "nothumb": no thumbnails/Thumbnail.png in it, "thumb") and the write
\* ending as wr ("ok", "openfail", "writefail"): the icon, the tree, and
\* whether an exception leaves the function.
get_icon(f, filepath, arch, wr) ==
    LET iconname == get_hashname(filepath)
        iconurl  == Join(imagefolder, RelPath(<<iconname>>))
        iconpath == Join(homefolder, iconurl)
        written  == WriteThumb(f, iconpath, wr)
    IN  IF arch = "bad"
        THEN [icon |-> defaulticon, fs |-> f, raised |-> FALSE]
        ELSE IF arch = "nothumb"
        THEN [icon |-> defaulticon, fs |-> f, raised |-> FALSE]
        ELSE IF wr # "ok"
        THEN [icon |-> defaulticon, fs |-> written, raised |-> FALSE]
        ELSE [icon   |-> IF exists(written, iconpath) THEN iconurl ELSE defaulticon,
              fs     |-> written,
              raised |-> FALSE]

\* ---------------------------------------------------------- build_card

\* exts, in the order the dict is written.
exts ==
    << [key |-> "STEP", list |-> << <<".", "stp">>, <<".", "step">>,
                                    <<".", "STP">>, <<".", "STEP">> >>],
       [key |-> "BREP", list |-> << <<".", "brp">>, <<".", "brep">>,
                                    <<".", "BRP">>, <<".", "BREP">> >>],
       [key |-> "STL",  list |-> << <<".", "stl">>, <<".", "STL">> >>] >>

\* icons[name_key]
icons(key) ==
    CASE key = "STEP" -> stepicon
      [] key = "BREP" -> brepicon
      [] key = "STL"  -> stlicon

\* The path build_card probes for one extension.
ext_path(basename, ext) == with_suffix(basename, ext)

RECURSIVE FamilyLinks_no_break(_, _, _, _)
\* The inner loop of build_card without its break: a link for every
\* extension of the list whose path exists.
FamilyLinks_no_break(f, basename, key, list) ==
    IF list = <<>> THEN <<>>
    ELSE LET p == ext_path(basename, Head(list))
         IN  (IF exists(f, p)
              THEN << [family |-> key,
                       target |-> p.parts,
                       href   |-> clean_path(p),
                       img    |-> clean_path(icons(key))] >>
              ELSE <<>>)
             \o FamilyLinks_no_break(f, basename, key, Tail(list))

RECURSIVE FamilyLinks(_, _, _, _)
\* The inner loop of build_card: the link of the first extension of the
\* list whose path exists, and then break.
FamilyLinks(f, basename, key, list) ==
    IF list = <<>> THEN <<>>
    ELSE LET p == ext_path(basename, Head(list))
         IN  IF exists(f, p)
             THEN << [family |-> key,
                      target |-> p.parts,
                      href   |-> clean_path(p),
                      img    |-> clean_path(icons(key))] >>
             ELSE FamilyLinks(f, basename, key, Tail(list))

RECURSIVE CardLinks(_, _, _)
\* The outer loop of build_card over exts.items().
CardLinks(f, basename, families) ==
    IF families = <<>> THEN <<>>
    ELSE FamilyLinks(f, basename, Head(families).key, Head(families).list)
         \o CardLinks(f, basename, Tail(families))

\* build_card(filepath): the html of the card, and the tree as get_icon
\* leaves it.
build_card(f, filepath, arch, wr) ==
    IF exists(f, filepath)
    THEN LET basename == with_suffix(filepath, <<>>)
             got      == get_icon(f, filepath, arch, wr)
         IN  [html |-> << [t     |-> "card",
                           doc   |-> filepath.parts,
                           href  |-> clean_path(filepath),
                           icon  |-> clean_path(got.icon),
                           name  |-> PathName(basename),
                           links |-> CardLinks(got.fs, basename, exts)] >>,
              fs     |-> got.fs,
              raised |-> got.raised]
    ELSE [html |-> <<>>, fs |-> f, raised |-> FALSE]

\* --------------------------------------------------------- build_title

\* The level from which a title is a div and no longer a heading.
DivLevel == 7

\* build_title(dirpath, level)
build_title(dirpath, level) ==
    IF level = 1 THEN <<>>
    ELSE << [t     |-> "title",
             tag   |-> IF level < DivLevel THEN "h" ELSE "div",
             level |-> level,
             icon  |-> clean_path(collapseicon),
             name  |-> PathName(dirpath)] >>


\* ---------------------------------------------------------- build_html

\* The listing without its try: the OSError leaves build_html.
TryList_no_except(f, dirpath, answer) ==
    IF answer = "ok"
    THEN [raised |-> FALSE, listed |-> TRUE,
          nodes  |-> { p \in iterdir(f, dirpath) :
                         /\ ~StartsWith(PathName(p), <<".">>)
                         /\ PathName(p) \notin excludelist }]
    ELSE [raised |-> TRUE, listed |-> FALSE, nodes |-> {}]

\* try: nodes = [...] except OSError: the entries that are neither hidden
\* nor excluded when the directory can be listed; when it cannot, the
\* error is caught and nothing is raised.
TryList(f, dirpath, answer) ==
    IF answer = "ok"
    THEN [raised |-> FALSE, listed |-> TRUE,
          nodes  |-> { p \in iterdir(f, dirpath) :
                         /\ ~StartsWith(PathName(p), <<".">>)
                         /\ PathName(p) \notin excludelist }]
    ELSE [raised |-> FALSE, listed |-> FALSE, nodes |-> {}]

\* dirs = sorted(p for p in nodes if p.is_dir())
DirsOf(f, nodes) == sorted({ p \in nodes : is_dir(f, p) })

\* files without the test of the suffix: every entry that is no directory.
FilesOf_any_suffix(f, nodes) == sorted({ p \in nodes : ~is_dir(f, p) })

\* files = sorted(p for p in nodes if p.suffix.lower() == ".fcstd")
FilesOf(f, nodes) ==
    sorted({ p \in nodes : Lower(Suffix(PathName(p))) = <<".", "fcstd">> })

\* '<div class="collapsable hidden">', '<div class="cards">' and '</div>'
OpenWrapper  == [t |-> "open"]
CloseWrapper == [t |-> "close"]
OpenCards    == [t |-> "cards"]
CloseCards   == [t |-> "endcards"]

\* The head of build_html, before the directory is listed.
HtmlHead(dirpath, level) ==
    build_title(dirpath, level) \o (IF level > 1 THEN <<OpenWrapper>> ELSE <<>>)

\* A call build_html(dirpath, level) that has not run yet.
NewFrame(dirpath, level) ==
    [dirpath |-> dirpath, level |-> level, phase |-> "enter", html |-> <<>>,
     dirs |-> <<>>, files |-> <<>>, built |-> 0]

Top == stack[Len(stack)]

SetTop(frame) == [stack EXCEPT ![Len(stack)] = frame]

\* The template with its five placeholders replaced.
Assemble(html) ==
    [contents |-> html,
     icons    |-> << clean_path(listicon), clean_path(gridicon),
                     clean_path(collapseicon), clean_path(expandicon) >>]

NoPage == [contents |-> <<>>, icons |-> <<>>]

\* The innermost call returns html: to the call above it, which appends
\* it, or to __main__, which puts it into the template.
Return(html) ==
    /\ ret' = (Top.dirpath.parts :> html) @@ ret
    /\ IF Len(stack) = 1
       THEN /\ stack' = <<>>
            /\ page' = Assemble(html)
            /\ pc' = "assembled"
       ELSE /\ stack' = [SubSeq(stack, 1, Len(stack) - 1)
                           EXCEPT ![Len(stack) - 1].html = @ \o html]
            /\ UNCHANGED <<page, pc>>

\* An exception leaves __main__.
Crash(op) ==
    /\ status' = "crashed"
    /\ cause' = op

\* ------------------------------------------------- the operating system

TemplateAnswers == IF env.template = "?" THEN {"ok", "fail"} ELSE {env.template}

ListAnswers(dirpath) ==
    IF dirpath.parts \in DOMAIN env.list THEN {env.list[dirpath.parts]}
    ELSE {"ok", "fail"}

\* What reading the archive and writing the thumbnail can end as.  A
\* directory is no archive; a path that does not exist is never opened.
DocAnswers(f, filepath) ==
    IF filepath.parts \in DOMAIN env.doc THEN {env.doc[filepath.parts]}
    ELSE IF ~exists(f, filepath) THEN {[arch |-> "-", wr |-> "-"]}
    ELSE IF is_dir(f, filepath) THEN {[arch |-> "bad", wr |-> "-"]}
    ELSE { [arch |-> "bad", wr |-> "-"], [arch |-> "nothumb", wr |-> "-"],
           [arch |-> "thumb", wr |-> "ok"], [arch |-> "thumb", wr |-> "openfail"],
           [arch |-> "thumb", wr |-> "writefail"] }

IndexAnswers ==
    IF env.index = "?" THEN {"ok", "openfail", "writefail"} ELSE {env.index}

\* ---------------------------------------------------------------- trees

\* The number of entries of the tree besides thumbnails/.  The library is
\* as checked out: index.html is not there before the first run.
MaxEntries == 3

DirNames == { <<"Tools">>, <<"x", ".", "fcstd">>, <<".", "git">> }

DanglingNames == { <<"ghost", ".", "FCStd">> }

FileNames ==
    { <<"part", ".", "FCStd">>, <<"part", ".", "v2", ".", "FCStd">>,
      <<"part", ".", "stp">>, <<"part", ".", "STEP">>,
      <<"part", ".", "brp">>, <<"part", ".", "stl">> }

Names == DirNames \cup DanglingNames \cup FileNames

NameKind(n) ==
    IF n \in DirNames THEN "dir" ELSE IF n \in DanglingNames THEN "dangling" ELSE "file"

\* The directories of a tree that hold entries are the root and those
\* named Tools; a directory named x.fcstd or .git is empty.
Holds(q) == q[Len(q)] = <<"Tools">>

\* The trees with one entry more than s.
Grow(s) ==
    { s \cup {d \o <<n>>} :
        d \in {<<>>} \cup { q \in s : Holds(q) },
        n \in Names }

RECURSIVE Trees(_)
\* The trees of at most k entries.
Trees(k) ==
    IF k = 0 THEN { {} }
    ELSE LET T == Trees(k - 1) IN T \cup UNION { Grow(s) : s \in T }

IndexName == <<"index", ".", "html">>

Thumbs(f) == { q \in DOMAIN f : Len(q) = 2 /\ q[1] = <<"thumbnails">> }

NoIndex == [state |-> "absent", content |-> NoPage]

Init ==
    /\ \E s \in Trees(MaxEntries) :
         fs = [q \in s \cup { <<>>, << <<"thumbnails">> >> } |->
                 IF q = <<>> \/ q = << <<"thumbnails">> >> THEN "dir"
                 ELSE NameKind(q[Len(q)])]
    /\ index = NoIndex
    /\ index0 = index
    /\ env = [template |-> "?", list |-> <<>>, doc |-> <<>>, index |-> "?"]
    /\ pc = "start"
    /\ status = "running"
    /\ cause = ""
    /\ stack = <<>>
    /\ page = NoPage
    /\ run = "first"
    /\ prev = [page |-> NoPage, thumbs |-> {}]
    /\ ret = <<>>
    /\ given = RelPath(<<>>) /\ cleaned = <<>> /\ recleaned = <<>> /\ ppc = "off"

\* -------------------------------------------------------------- actions

\* template = template_path.read_text(), and the call build_html(homefolder)
ReadTemplate ==
    /\ status = "running" /\ pc = "start"
    /\ \E a \in TemplateAnswers :
         /\ env' = [env EXCEPT !.template = a]
         /\ IF a = "ok"
            THEN /\ pc' = "walk"
                 /\ stack' = <<NewFrame(homefolder, 1)>>
                 /\ UNCHANGED <<status, cause>>
            ELSE /\ Crash("template")
                 /\ UNCHANGED <<pc, stack>>
    /\ UNCHANGED <<fs, page, index, index0, run, prev, ret>>
    /\ UNCHANGED paths

\* build_html up to the listing of the directory
EnterDir ==
    /\ status = "running" /\ pc = "walk" /\ Top.phase = "enter"
    /\ \E a \in ListAnswers(Top.dirpath) :
         LET d    == Top.dirpath
             head == HtmlHead(d, Top.level)
             got  == TryList(fs, d, a)
         IN  IF ~is_dir(fs, d)
             THEN /\ Return(<<>>)
                  /\ UNCHANGED <<env, status, cause>>
             ELSE /\ env' = [env EXCEPT !.list = (d.parts :> a) @@ @]
                  /\ IF got.raised
                     THEN /\ Crash("list")
                          /\ UNCHANGED <<stack, page, pc, ret>>
                     ELSE /\ UNCHANGED <<status, cause>>
                          /\ IF got.listed
                             THEN /\ stack' = SetTop([Top EXCEPT
                                        !.phase = "body",
                                        !.html  = head,
                                        !.dirs  = DirsOf(fs, got.nodes),
                                        !.files = FilesOf(fs, got.nodes)])
                                  /\ UNCHANGED <<page, pc, ret>>
                             ELSE Return(head)
    /\ UNCHANGED <<fs, index, index0, run, prev>>
    /\ UNCHANGED paths

\* for fpath in dirs: html += build_html(fpath, level + 1), the call
Descend ==
    /\ status = "running" /\ pc = "walk" /\ Top.phase = "body"
    /\ Top.dirs # <<>>
    /\ stack' = Append(SetTop([Top EXCEPT !.dirs = Tail(@)]),
                       NewFrame(Head(Top.dirs), Top.level + 1))
    /\ UNCHANGED <<fs, env, pc, status, cause, page, index, index0, run, prev, ret>>
    /\ UNCHANGED paths

\* for fpath in files: html += build_card(fpath), inside the cards div
BuildCard ==
    /\ status = "running" /\ pc = "walk" /\ Top.phase = "body"
    /\ Top.dirs = <<>> /\ Top.files # <<>>
    /\ \E a \in DocAnswers(fs, Head(Top.files)) :
         LET fpath == Head(Top.files)
             card  == build_card(fs, fpath, a.arch, a.wr)
         IN  /\ env' = [env EXCEPT !.doc = (fpath.parts :> a) @@ @]
             /\ IF card.raised
                THEN /\ Crash("get_icon")
                     /\ UNCHANGED <<stack, fs>>
                ELSE /\ fs' = card.fs
                     /\ stack' = SetTop([Top EXCEPT
                            !.html  = @ \o (IF Top.built = 0 THEN <<OpenCards>> ELSE <<>>)
                                        \o card.html
                                        \o (IF Tail(Top.files) = <<>>
                                            THEN <<CloseCards>> ELSE <<>>),
                            !.files = Tail(@),
                            !.built = 1])
                     /\ UNCHANGED <<status, cause>>
    /\ UNCHANGED <<pc, page, index, index0, run, prev, ret>>
    /\ UNCHANGED paths

\* the end of build_html: the wrapper is closed and html returned
ReturnDir ==
    /\ status = "running" /\ pc = "walk" /\ Top.phase = "body"
    /\ Top.dirs = <<>> /\ Top.files = <<>>
    /\ Return(Top.html \o (IF Top.level > 1 THEN <<CloseWrapper>> ELSE <<>>))
    /\ UNCHANGED <<fs, env, status, cause, index, index0, run, prev>>
    /\ UNCHANGED paths

\* index.html opened while the walk is still going on.
OpenIndex_during_walk ==
    /\ status = "running" /\ pc \in {"walk", "assembled"}
    /\ \E a \in IndexAnswers :
         /\ env' = [env EXCEPT !.index = a]
         /\ IF a = "openfail"
            THEN /\ Crash("index")
                 /\ UNCHANGED <<pc, fs, index>>
            ELSE /\ pc' = "opened"
                 /\ fs' = (<<IndexName>> :> "file") @@ fs
                 /\ index' = [state |-> "empty", content |-> NoPage]
                 /\ UNCHANGED <<status, cause>>
    /\ UNCHANGED <<stack, page, index0, run, prev, ret>>
    /\ UNCHANGED paths

\* with htmlfile.open("w") as index: the file is created or emptied
OpenIndex ==
    /\ status = "running" /\ pc = "assembled"
    /\ \E a \in IndexAnswers :
         /\ env' = [env EXCEPT !.index = a]
         /\ IF a = "openfail"
            THEN /\ Crash("index")
                 /\ UNCHANGED <<pc, fs, index>>
            ELSE /\ pc' = "opened"
                 /\ fs' = (<<IndexName>> :> "file") @@ fs
                 /\ index' = [state |-> "empty", content |-> NoPage]
                 /\ UNCHANGED <<status, cause>>
    /\ UNCHANGED <<stack, page, index0, run, prev, ret>>
    /\ UNCHANGED paths

\* index.write(html) and the close of the file
WriteIndex ==
    /\ status = "running" /\ pc = "opened"
    /\ IF env.index = "ok"
       THEN /\ index' = [state |-> "complete", content |-> page]
            /\ pc' = "end"
            /\ status' = "done"
            /\ UNCHANGED cause
       ELSE /\ index' = [state |-> "partial", content |-> NoPage]
            /\ Crash("index")
            /\ UNCHANGED pc
    /\ UNCHANGED <<fs, env, stack, page, index0, run, prev, ret>>
    /\ UNCHANGED paths

\* The generator is run again on what the first run left.
Rerun ==
    /\ status = "done" /\ run = "first"
    /\ run' = "second"
    /\ prev' = [page |-> page, thumbs |-> Thumbs(fs)]
    /\ index0' = index
    /\ pc' = "start"
    /\ status' = "running"
    /\ page' = NoPage
    /\ ret' = <<>>
    /\ UNCHANGED <<fs, env, cause, stack, index>>
    /\ UNCHANGED paths

Next ==
    \/ ReadTemplate
    \/ EnterDir
    \/ Descend
    \/ BuildCard
    \/ ReturnDir
    \/ OpenIndex
    \/ WriteIndex
    \/ Rerun

Spec == Init /\ [][Next]_vars


\* ------------------------------------------------- clean_path by itself

\* The longest path clean_path is given, in parts below homefolder.
MaxParts == 2

PathNames ==
    { <<"Tools">>, <<"part", ".", "FCStd">>, <<"a", " ", "b">>,
      <<"a", "%", "20">>, <<"a", "\\", "b">>, <<"x", ".", "fcstd">>,
      <<".", "git">> }

RECURSIVE PartsUpTo(_)
\* The tuples of at most n names.
PartsUpTo(n) ==
    IF n = 0 THEN { <<>> }
    ELSE LET P == PartsUpTo(n - 1)
         IN  P \cup { Append(q, m) : q \in P, m \in PathNames }

\* The paths inside homefolder, written from the working directory or in full.
PathInputs ==
    { RelPath(q) : q \in PartsUpTo(MaxParts) }
        \cup { MkPath(TRUE, homefolder.parts \o q) : q \in PartsUpTo(MaxParts) }

PathInit ==
    /\ given \in PathInputs
    /\ cleaned = <<>> /\ recleaned = <<>> /\ ppc = "given"
    /\ fs = <<>> /\ env = <<>> /\ pc = "off" /\ status = "off" /\ cause = ""
    /\ stack = <<>> /\ page = NoPage /\ index = NoIndex /\ index0 = NoIndex
    /\ run = "off" /\ prev = [page |-> NoPage, thumbs |-> {}] /\ ret = <<>>

\* clean_path(given)
CleanOnce ==
    /\ ppc = "given"
    /\ cleaned' = clean_path(given)
    /\ ppc' = "cleaned"
    /\ UNCHANGED <<given, recleaned, walk>>

\* clean_path(Path(cleaned)): the output read as a path from homefolder
CleanAgain ==
    /\ ppc = "cleaned"
    /\ recleaned' = clean_path(ParsePath(cleaned))
    /\ ppc' = "recleaned"
    /\ UNCHANGED <<given, cleaned, walk>>

PathNext == CleanOnce \/ CleanAgain

PathSpec == PathInit /\ [][PathNext]_vars


\* =============================================================== claims

\* ------------------------------------------------------------------- C9

NoBackslash(s) == \A i \in 1..Len(s) : s[i] # "\\"

NoLeadingSlash(s) == ~StartsWith(s, <<"/">>)

\* A part of the path holds a character that gets percent-encoded.
HasEscapedChar(p) ==
    \E i \in 1..Len(p.parts) : \E j \in 1..Len(p.parts[i]) :
        p.parts[i][j] \in {" ", "%"}

HtmlCards(h) == { h[i] : i \in { i \in 1..Len(h) : h[i].t = "card" } }

\* Every card of the page: the walk has no way to drop a card it has
\* built, so these are the cards of the run.
Cards == HtmlCards(page.contents)

DocPath(c) == MkPath(TRUE, c.doc)

DirOf(parts) == SubSeq(parts, 1, Len(parts) - 1)

Min(S) == CHOOSE x \in S : \A y \in S : x <= y

\* ------------------------------------------------------------------- C1

FamilyIndex(key) == CHOOSE k \in 1..Len(exts) : exts[k].key = key

\* The paths build_card probes for the k-th family, in the declared order.
Candidates(c, k) ==
    [j \in 1..Len(exts[k].list) |->
        ext_path(with_suffix(DocPath(c), <<>>), exts[k].list[j])]

\* C1: a card has, for each family, one link when one of the family's
\* probed paths exists and none otherwise, to the first existing path in
\* the declared order of the extensions, and the links are in the order
\* STEP, BREP, STL.
C1_OneLinkPerFamily ==
    \A c \in Cards :
        /\ \A k \in 1..Len(exts) :
             LET cand == Candidates(c, k)
                 hits == { j \in 1..Len(cand) : exists(fs, cand[j]) }
                 mine == { i \in 1..Len(c.links) : c.links[i].family = exts[k].key }
             IN  IF hits = {} THEN mine = {}
                 ELSE /\ Cardinality(mine) = 1
                      /\ \A i \in mine :
                           /\ c.links[i].target = cand[Min(hits)].parts
                           /\ c.links[i].href = clean_path(cand[Min(hits)])
        /\ \A i, j \in 1..Len(c.links) :
             i < j => FamilyIndex(c.links[i].family) < FamilyIndex(c.links[j].family)
        /\ Len(c.links) <= Len(exts)

\* A finished page with a card whose STEP family has two existing paths
\* and whose only link goes to the first of them.
C1_Witness ==
    /\ status = "done"
    /\ \E c \in Cards :
         /\ Cardinality({ j \in 1..Len(exts[1].list) :
                            exists(fs, Candidates(c, 1)[j]) }) >= 2
         /\ Len(c.links) = 1
         /\ c.links[1].family = "STEP"
         /\ c.links[1].target = Candidates(c, 1)[1].parts

\* ------------------------------------------------------------------ C10

\* C10 as stated: every link of a card goes to a path in the document's
\* directory whose name is the document's base name, which is its file
\* name without the final extension and the name the card shows, followed
\* by an extension of one of the families.
C10_SiblingsOfBaseName ==
    \A c \in Cards :
        /\ c.name \o Suffix(c.doc[Len(c.doc)]) = c.doc[Len(c.doc)]
        /\ \A i \in 1..Len(c.links) :
             LET target == c.links[i].target
             IN  /\ DirOf(target) = DirOf(c.doc)
                 /\ \E k \in 1..Len(exts) : \E j \in 1..Len(exts[k].list) :
                      target[Len(target)] = c.name \o exts[k].list[j]

\* ------------------------------------------------------------------- C2

\* C2 as stated: every card is the card of an existing document file (no
\* directory, nothing that does not exist), and no document has two cards.
C2_CardsAreDocumentFiles ==
    /\ \A c \in Cards : KindOf(fs, DocPath(c)) = "file"
    /\ \A i, j \in 1..Len(page.contents) :
         ( /\ page.contents[i].t = "card" /\ page.contents[j].t = "card"
           /\ page.contents[i].doc = page.contents[j].doc ) => i = j

\* ------------------------------------------------------------------- C5

HashedIcon(c) == Join(imagefolder, RelPath(<<get_hashname(DocPath(c))>>))

\* C5 as stated: a card shows the hashed thumbnail thumbnails/<md5>.png
\* only when the archive was read, held the thumbnail and the write went
\* through, and then the file is there; in every other case it shows the
\* default icon and get_icon has written nothing at the hashed path (the
\* thumbnails of a fresh library are only those get_icon wrote, one name
\* for each document); and no exception leaves get_icon.
C5_HashedIconOnlyWhenWritten ==
    /\ cause # "get_icon"
    /\ \A c \in Cards :
         LET a == env.doc[c.doc]
         IN  IF a.arch = "thumb" /\ a.wr = "ok"
             THEN /\ c.icon = clean_path(HashedIcon(c))
                  /\ exists(fs, Join(homefolder, HashedIcon(c)))
             ELSE /\ c.icon = clean_path(defaulticon)
                  /\ ~exists(fs, Join(homefolder, HashedIcon(c)))


\* ------------------------------------------------------------------- C3

\* The level of a directory: 1 for homefolder.
LevelOf(parts) == Len(parts) - Len(homefolder.parts) + 1

Visible(p) ==
    /\ ~StartsWith(PathName(p), <<".">>)
    /\ PathName(p) \notin excludelist

\* The subdirectories and the document files of a directory, as the
\* claim speaks of them.
SubdirsOf(dirpath) ==
    { p \in iterdir(fs, dirpath) : Visible(p) /\ KindOf(fs, p) = "dir" }

DocumentsOf(dirpath) ==
    { p \in iterdir(fs, dirpath) :
        /\ Visible(p)
        /\ KindOf(fs, p) = "file"
        /\ Lower(Suffix(PathName(p))) = <<".", "fcstd">> }

\* The html reduced to its structure: what each element is, and of what.
Shape(h) ==
    [i \in 1..Len(h) |->
        IF h[i].t = "title" THEN [t |-> "title", of |-> h[i].name]
        ELSE IF h[i].t = "card" THEN [t |-> "card", of |-> h[i].doc[Len(h[i].doc)]]
        ELSE [t |-> h[i].t, of |-> <<>>]]

RECURSIVE Flatten(_)
Flatten(ss) == IF ss = <<>> THEN <<>> ELSE Head(ss) \o Flatten(Tail(ss))

RECURSIVE SectionShape(_)
\* The structure the claim gives the output for a directory.
SectionShape(dirpath) ==
    LET level == LevelOf(dirpath.parts)
        subs  == sorted(SubdirsOf(dirpath))
        docs  == sorted(DocumentsOf(dirpath))
    IN  (IF level > 1
         THEN << [t |-> "title", of |-> PathName(dirpath)], [t |-> "open", of |-> <<>>] >>
         ELSE <<>>)
        \o Flatten([i \in 1..Len(subs) |-> SectionShape(subs[i])])
        \o (IF docs # <<>>
            THEN << [t |-> "cards", of |-> <<>>] >>
                 \o [i \in 1..Len(docs) |-> [t |-> "card", of |-> PathName(docs[i])]]
                 \o << [t |-> "endcards", of |-> <<>>] >>
            ELSE <<>>)
        \o (IF level > 1 THEN << [t |-> "close", of |-> <<>>] >> ELSE <<>>)

\* C3 as stated: when every directory can be listed, what build_html
\* returns for a directory is its title and the opening of its wrapper
\* (neither for the root), the sections of its subdirectories in the order
\* of their names, the cards of its document files in one container if it
\* has any, and the closing of the wrapper.
C3_SectionStructure ==
    (\A d \in DOMAIN env.list : env.list[d] = "ok") =>
        \A d \in DOMAIN ret : Shape(ret[d]) = SectionShape(MkPath(TRUE, d))

\* ------------------------------------------------------------------- C4

\* C4 as stated: a directory that cannot be listed gives its title and
\* nothing else, no exception leaves build_html, and the walk goes on.
C4_OnlyTheTitle ==
    /\ cause # "list"
    /\ \A d \in DOMAIN ret :
         env.list[d] = "fail" =>
            ret[d] = build_title(MkPath(TRUE, d), LevelOf(d))

\* ------------------------------------------------------------------- C6

\* An abort from outside stops the process where it is and changes no
\* file: what an aborted run leaves is what some state of the run holds.

\* C6 as stated: at every point of a run index.html is absent or holds the
\* whole page of a finished run, and it changes only after the walk.
C6_NeverEmptyOrPartial ==
    /\ index.state \in {"absent", "complete"}
    /\ index # index0 => pc \in {"opened", "end"} /\ stack = <<>>

\* C6 amended: index.html is opened only after the whole walk and all
\* writes of thumbnails; up to then it is what it was when the run began,
\* absent or the whole page of the run before; from the opening to the
\* end of the write it is empty or partial, what it held before being
\* lost; after the write it holds the whole page of this run.
C6_IntactUntilOpened ==
    /\ index0.state \in {"absent", "complete"}
    /\ pc \in {"start", "walk", "assembled"} => index = index0
    /\ pc = "opened" =>
         /\ index.state \in {"empty", "partial"}
         /\ stack = <<>>
         /\ homefolder.parts \in DOMAIN ret
         /\ page = Assemble(ret[homefolder.parts])
    /\ pc = "end" => index = [state |-> "complete", content |-> page]

\* The second run has opened index.html: the page of the first run is
\* gone and the file is empty.
C6_Witness ==
    /\ run = "second" /\ pc = "opened" /\ status = "running"
    /\ index0.state = "complete" /\ index0.content.contents # <<>>
    /\ index.state = "empty"
    /\ Thumbs(fs) # {}

\* ------------------------------------------------------------------- C7

\* C7 as stated: no failure is fatal.
C7_NoFailureIsFatal == status # "crashed"

\* C7 amended: a directory that cannot be listed, an archive that cannot
\* be read and a thumbnail that cannot be written are caught and the run
\* goes on to its end; a template that cannot be read and an index.html
\* that cannot be opened or written end the run with the exception, and
\* then this run has written no whole page.
C7_OnlyTemplateAndIndexAreFatal ==
    /\ status = "crashed" =>
         /\ cause \in {"template", "index"}
         /\ cause = "template" => pc = "start" /\ env.template = "fail"
         /\ cause = "index" => pc \in {"assembled", "opened"} /\ env.index # "ok"
         /\ index.state = "complete" => index = index0
    /\ status = "running" => pc # "end" /\ (pc = "walk" => stack # <<>>)
    /\ status = "done" =>
         /\ env.template = "ok" /\ env.index = "ok"
         /\ index = [state |-> "complete", content |-> page]

\* A finished run that met a directory it could not list, an archive it
\* could not read and a thumbnail it could not write.
C7_Witness ==
    /\ status = "done"
    /\ \E d \in DOMAIN env.list : env.list[d] = "fail"
    /\ \E d \in DOMAIN env.doc : env.doc[d].arch = "bad"
    /\ \E d \in DOMAIN env.doc : env.doc[d].wr = "writefail"
    /\ Cards # {}

\* ------------------------------------------------------------------- C8

\* C8: the second run on what the first left writes the same page into
\* index.html and leaves the same thumbnails.
C8_SecondRunSame ==
    (run = "second" /\ status = "done") =>
        /\ page = prev.page
        /\ index = [state |-> "complete", content |-> prev.page]
        /\ Thumbs(fs) = prev.thumbs

\* The second run has finished; the first had written index.html and a
\* thumbnail.
C8_Witness ==
    /\ run = "second" /\ status = "done"
    /\ prev.thumbs # {}
    /\ <<IndexName>> \in DOMAIN fs
    /\ Cards # {}

=============================================================================
